---- MODULE Spec2Model ----
(***************************************************************************)
(* Model of models/model_spec/common/src/model_common.c:                   *)
(*   - the chained model timer (model_timer_schedule / model_timer_abort / *)
(*     model_timer_cb / timeout_update_and_schedule) on top of a           *)
(*     single-shot app_timer slot and its free running RTC counter,        *)
(*   - the TID tracker (model_tid_validate / model_tid_timer_cb),          *)
(*   - the delay codec (model_delay_encode / model_delay_decode),          *)
(*   - the transition time codec (model_transition_time_encode /           *)
(*     model_transition_time_decode / model_transition_time_is_valid),     *)
(*   - the metadata recovery (model_common_init / mesh_evt_handler /       *)
(*     model_common_metadata_setter / model_common_config_apply).          *)
(***************************************************************************)
EXTENDS Integers, Sequences, FiniteSets, TLC

(***************************************************************************)
(* Hardware port parameters.  The real port has a 24 bit counter           *)
(* (MODEL_TIMER_MAX_TIMEOUT_TICKS = APP_TIMER_MAX_CNT_VAL) and a minimum   *)
(* timeout of a few ticks; the model keeps their relation and scales the   *)
(* counter down.                                                           *)
(***************************************************************************)
APP_TIMER_MIN_TIMEOUT_TICKS == 5

MODEL_TIMER_MAX_TIMEOUT_TICKS == 63

APP_TIMER_MAX_TIMEOUT == MODEL_TIMER_MAX_TIMEOUT_TICKS - (APP_TIMER_MIN_TIMEOUT_TICKS * 2)

\* The RTC counter takes the values 0 .. MODEL_TIMER_MAX_TIMEOUT_TICKS and wraps.
RtcMod == MODEL_TIMER_MAX_TIMEOUT_TICKS + 1

\* total_rtc_ticks is a uint64_t: it cannot wrap in practice; the model
\* saturates it at TotalCap.
TotalCap == 24

\* Ticks the counter may advance between an expiry and the end of its dispatch.
MaxLatency == 1

\* The callback counter of the observation saturates here.
FiredCap == 3

\* The count of the ticks that really passed since schedule() saturates here.
TrueTicksCap == 10

\* Tail of the "2 x C + 50" scenario.
ScenarioTail == 50

ScenarioDuration == 2 * APP_TIMER_MAX_TIMEOUT + ScenarioTail

\* Durations a caller schedules that schedule() accepts.
Durations ==
    { APP_TIMER_MIN_TIMEOUT_TICKS, ScenarioTail, APP_TIMER_MAX_TIMEOUT,
      APP_TIMER_MAX_TIMEOUT + 1, MODEL_TIMER_MAX_TIMEOUT_TICKS,
      MODEL_TIMER_MAX_TIMEOUT_TICKS + 1, ScenarioDuration }

\* Durations the application and the callback pass when they may call at any
\* time: the shortest one, a chain of three arms, and one below the minimum.
ChainDuration == MODEL_TIMER_MAX_TIMEOUT_TICKS + APP_TIMER_MAX_TIMEOUT + 1

CallDurations ==
    { APP_TIMER_MIN_TIMEOUT_TICKS - 1, APP_TIMER_MIN_TIMEOUT_TICKS, ChainDuration }

Modes == { "MODEL_TIMER_MODE_SINGLE_SHOT", "MODEL_TIMER_MODE_REPEATED" }

Callbacks == { "NULL", "cb" }

VARIABLES
    \* model_timer_t
    mode, timeout_rtc_ticks, remaining_ticks, total_rtc_ticks, last_rtc_stamp,
    cb_active, cb,
    \* app_timer slot and RTC counter
    rtc, hw_armed, hw_left, late,
    \* position of the dispatch (model_timer_cb)
    pc,
    \* observation: arms issued since the last schedule() or firing, firings
    \* since the last schedule(), who aborted, schedule()'s last return value,
    \* the last operation
    arms, fired, aborted, ret, op,
    \* tid_tracker_t and its tid_expiry_timer (a timer_event_t)
    src, dst, message_id, old_tid, new_transaction, tid_cb, tid_interval,
    \* the timer scheduler: the clock, whether the event is queued, its timestamp
    now, tid_pending, tid_timestamp,
    \* observation: arguments of the last validate, time since the last validate
    \* classified new, parity of the validates classified new, scenario position
    tid_args, tid_age, tid_gen, tid_phase,
    \* delay codec: input, encoded byte, decoded value, position
    delay_in, enc_delay, dec_delay, delay_pc,
    \* observation: ticks the counter has advanced since the last successful
    \* schedule() while the timer was armed or being dispatched
    true_ticks,
    \* transition time codec: byte given, duration, encoded byte, decoded
    \* duration, position
    enc_transition_time, transition_time, enc_time, time, tt_pc,
    \* m_status, m_mesh_evt_handler.evt_cb and the persisted metadata entry
    \* (a sequence of at most one record)
    is_metadata_stored, is_load_failed, evt_cb, entry,
    \* observation: calls made by the last config_apply and its return value,
    \* whether a load failure of the model file was delivered since the last
    \* init, the last operation on the metadata
    cfg_calls, cfg_ret, failure_seen, cfg_op

timerVars ==
    << mode, timeout_rtc_ticks, remaining_ticks, total_rtc_ticks, last_rtc_stamp,
       cb_active, cb, rtc, hw_armed, hw_left, late, pc, arms, fired, aborted, ret,
       true_ticks >>

tidVars ==
    << src, dst, message_id, old_tid, new_transaction, tid_cb, tid_interval,
       now, tid_pending, tid_timestamp, tid_args, tid_age, tid_gen, tid_phase >>

delayVars == << delay_in, enc_delay, dec_delay, delay_pc >>

ttVars == << enc_transition_time, transition_time, enc_time, time, tt_pc >>

cfgVars ==
    << is_metadata_stored, is_load_failed, evt_cb, entry, cfg_calls, cfg_ret, failure_seen,
       cfg_op >>

vars == << timerVars, op, tidVars, delayVars, ttVars, cfgVars >>

\* A step of the timer: its label and the count of the ticks that really
\* passed, which restarts with every call that zeroes total_rtc_ticks and
\* saturates at TrueTicksCap; the tracker, the codecs and the metadata are not
\* involved.
TimerStep(label) ==
    /\ op' = label
    /\ true_ticks' =
           CASE label = "tick" ->
                    IF hw_armed \/ pc # "idle"
                    THEN (IF true_ticks < TrueTicksCap THEN true_ticks + 1
                          ELSE TrueTicksCap)
                    ELSE true_ticks
             [] label \in { "abort", "cb_abort" } -> 0
             [] label \in { "schedule", "cb_schedule" } ->
                    IF ret' = "NRF_SUCCESS" THEN 0 ELSE true_ticks
             [] OTHER -> true_ticks
    /\ UNCHANGED << tidVars, delayVars, ttVars, cfgVars >>

RECURSIVE SumSeq(_)
SumSeq(s) == IF s = << >> THEN 0 ELSE Head(s) + SumSeq(Tail(s))

Sat(x) == IF x > TotalCap THEN TotalCap ELSE x

SatFired(x) == IF x > FiredCap THEN FiredCap ELSE x

app_timer_cnt_diff_compute(to, from) == (to - from + RtcMod) % RtcMod

\* app_timer_start refuses a timeout below the minimum.
app_timer_start_status(ticks) ==
    IF ticks < APP_TIMER_MIN_TIMEOUT_TICKS THEN "NRF_ERROR_INVALID_PARAM" ELSE "NRF_SUCCESS"

app_timer_start(ticks) ==
    /\ hw_armed' = (app_timer_start_status(ticks) = "NRF_SUCCESS")
    /\ hw_left' = IF app_timer_start_status(ticks) = "NRF_SUCCESS" THEN ticks ELSE 0

app_timer_stop ==
    /\ hw_armed' = FALSE
    /\ hw_left' = 0

\* Mutant: every arm is capped at APP_TIMER_MAX_TIMEOUT.
ArmAmountCapped(r) ==
    IF r > APP_TIMER_MAX_TIMEOUT THEN APP_TIMER_MAX_TIMEOUT ELSE r

\* The amount timeout_update_and_schedule arms for, given remaining_ticks.
ArmAmount(r) ==
    IF r > MODEL_TIMER_MAX_TIMEOUT_TICKS THEN APP_TIMER_MAX_TIMEOUT ELSE r

\* Mutant: the chain subtracts the hardware maximum instead of the armed amount.
RemainingAfterMax(r) ==
    IF r > MODEL_TIMER_MAX_TIMEOUT_TICKS THEN r - MODEL_TIMER_MAX_TIMEOUT_TICKS ELSE 0

\* remaining_ticks after timeout_update_and_schedule.
RemainingAfter(r) ==
    IF r > MODEL_TIMER_MAX_TIMEOUT_TICKS THEN r - APP_TIMER_MAX_TIMEOUT ELSE 0

\* timeout_update_and_schedule on a timer whose remaining_ticks is r; hist is
\* the list of arms issued so far.
timeout_update_and_schedule(r, hist) ==
    /\ remaining_ticks' = RemainingAfter(r)
    /\ app_timer_start(ArmAmount(r))
    /\ arms' = Append(hist, ArmAmount(r))

\* Mutant: schedule stops the slot and samples the counter before it
\* validates the duration.
model_timer_schedule_stop_first(D, c) ==
    /\ timeout_rtc_ticks' = D
    /\ cb' = c
    /\ IF c = "NULL"
       THEN /\ ret' = "NRF_ERROR_NULL"
            /\ UNCHANGED << remaining_ticks, total_rtc_ticks, last_rtc_stamp,
                            hw_armed, hw_left, late, arms, fired, aborted >>
       ELSE IF D < APP_TIMER_MIN_TIMEOUT_TICKS
       THEN /\ ret' = "NRF_ERROR_INVALID_PARAM"
            /\ app_timer_stop
            /\ last_rtc_stamp' = rtc
            /\ UNCHANGED << remaining_ticks, total_rtc_ticks, late, arms, fired, aborted >>
       ELSE /\ last_rtc_stamp' = rtc
            /\ total_rtc_ticks' = 0
            /\ fired' = 0
            /\ aborted' = "no"
            /\ IF ~cb_active
               THEN /\ timeout_update_and_schedule(D, << >>)
                    /\ ret' = app_timer_start_status(ArmAmount(D))
                    /\ late' = 0
               ELSE /\ remaining_ticks' = D
                    /\ app_timer_stop
                    /\ arms' = << >>
                    /\ ret' = "NRF_SUCCESS"
                    /\ UNCHANGED late
    /\ UNCHANGED << mode, cb_active, rtc, pc >>

\* Mutant: schedule arms the slot also while the callback is running.
model_timer_schedule_arm_in_cb(D, c) ==
    /\ timeout_rtc_ticks' = D
    /\ cb' = c
    /\ IF c = "NULL"
       THEN /\ ret' = "NRF_ERROR_NULL"
            /\ UNCHANGED << remaining_ticks, total_rtc_ticks, last_rtc_stamp,
                            hw_armed, hw_left, late, arms, fired, aborted >>
       ELSE IF D < APP_TIMER_MIN_TIMEOUT_TICKS
       THEN /\ ret' = "NRF_ERROR_INVALID_PARAM"
            /\ UNCHANGED << remaining_ticks, total_rtc_ticks, last_rtc_stamp,
                            hw_armed, hw_left, late, arms, fired, aborted >>
       ELSE /\ last_rtc_stamp' = rtc
            /\ total_rtc_ticks' = 0
            /\ fired' = 0
            /\ aborted' = "no"
            /\ timeout_update_and_schedule(D, << >>)
            /\ ret' = app_timer_start_status(ArmAmount(D))
            /\ IF cb_active THEN UNCHANGED late ELSE late' = 0
    /\ UNCHANGED << mode, cb_active, rtc, pc >>

\* model_timer_schedule on a timer whose caller has set timeout_rtc_ticks = D
\* and cb = c.
model_timer_schedule(D, c) ==
    /\ timeout_rtc_ticks' = D
    /\ cb' = c
    /\ IF c = "NULL"
       THEN /\ ret' = "NRF_ERROR_NULL"
            /\ UNCHANGED << remaining_ticks, total_rtc_ticks, last_rtc_stamp,
                            hw_armed, hw_left, late, arms, fired, aborted >>
       ELSE IF D < APP_TIMER_MIN_TIMEOUT_TICKS
       THEN /\ ret' = "NRF_ERROR_INVALID_PARAM"
            /\ UNCHANGED << remaining_ticks, total_rtc_ticks, last_rtc_stamp,
                            hw_armed, hw_left, late, arms, fired, aborted >>
       ELSE /\ last_rtc_stamp' = rtc
            /\ total_rtc_ticks' = 0
            /\ fired' = 0
            /\ aborted' = "no"
            /\ IF ~cb_active
               THEN /\ timeout_update_and_schedule(D, << >>)
                    /\ ret' = app_timer_start_status(ArmAmount(D))
                    /\ late' = 0
               ELSE /\ remaining_ticks' = D
                    /\ app_timer_stop
                    /\ arms' = << >>
                    /\ ret' = "NRF_SUCCESS"
                    /\ UNCHANGED late
    /\ UNCHANGED << mode, cb_active, rtc, pc >>

\* Mutant: abort forgets to stop the hardware slot.
model_timer_abort_no_stop(who) ==
    /\ remaining_ticks' = 0
    /\ timeout_rtc_ticks' = 0
    /\ total_rtc_ticks' = 0
    /\ aborted' = who
    /\ UNCHANGED << mode, last_rtc_stamp, cb_active, cb, rtc, pc, arms, fired, ret,
                    hw_armed, hw_left >>

\* Mutant: abort leaves remaining_ticks alone.
model_timer_abort_keeps_remaining(who) ==
    /\ app_timer_stop
    /\ timeout_rtc_ticks' = 0
    /\ total_rtc_ticks' = 0
    /\ aborted' = who
    /\ UNCHANGED << mode, remaining_ticks, last_rtc_stamp, cb_active, cb, rtc, pc,
                    arms, fired, ret >>

model_timer_abort(who) ==
    /\ app_timer_stop
    /\ remaining_ticks' = 0
    /\ timeout_rtc_ticks' = 0
    /\ total_rtc_ticks' = 0
    /\ aborted' = who
    /\ UNCHANGED << mode, last_rtc_stamp, cb_active, cb, rtc, pc, arms, fired, ret >>

(***************************************************************************)
(* Application context: calls made while no dispatch is in progress.       *)
(***************************************************************************)
Schedule ==
    /\ pc = "idle"
    /\ \/ \E D \in CallDurations : model_timer_schedule(D, "cb")
       \/ model_timer_schedule(timeout_rtc_ticks, "NULL")
    /\ TimerStep("schedule")

Abort ==
    /\ pc = "idle"
    /\ model_timer_abort("app")
    /\ late' = 0
    /\ TimerStep("abort")

(***************************************************************************)
(* The RTC counter advances by one tick.  A pending arm counts down; once  *)
(* it has expired the dispatch may be late by at most MaxLatency ticks.    *)
(***************************************************************************)
Tick ==
    /\ pc # "fault"
    /\ rtc' = (rtc + 1) % RtcMod
    /\ IF pc = "idle" /\ hw_armed /\ hw_left > 0
       THEN hw_left' = hw_left - 1 /\ UNCHANGED late
       ELSE IF pc = "idle" /\ ~hw_armed
       THEN UNCHANGED << hw_left, late >>
       ELSE late < MaxLatency /\ late' = late + 1 /\ UNCHANGED hw_left
    /\ UNCHANGED << mode, timeout_rtc_ticks, remaining_ticks, total_rtc_ticks,
                    last_rtc_stamp, cb_active, cb, hw_armed, pc, arms, fired,
                    aborted, ret >>
    /\ TimerStep("tick")

(***************************************************************************)
(* model_timer_cb, one step per read of the counter and per call.          *)
(***************************************************************************)
\* line 142-144: the slot has expired; the assertion, then the first counter read.
DispatchBegin ==
    /\ pc = "idle" /\ hw_armed /\ hw_left = 0
    /\ hw_armed' = FALSE
    /\ IF cb = "NULL"
       THEN pc' = "fault" /\ UNCHANGED total_rtc_ticks
       ELSE /\ pc' = "stamp"
            /\ total_rtc_ticks' =
                   Sat(total_rtc_ticks + app_timer_cnt_diff_compute(rtc, last_rtc_stamp))
    /\ UNCHANGED << mode, timeout_rtc_ticks, remaining_ticks, last_rtc_stamp,
                    cb_active, cb, rtc, hw_left, late, arms, fired, aborted, ret >>
    /\ TimerStep("expire")

\* line 145-151: the second counter read, then the callback is entered if the
\* whole duration has elapsed.
DispatchStamp ==
    /\ pc = "stamp"
    /\ last_rtc_stamp' = rtc
    /\ IF remaining_ticks = 0
       THEN /\ cb_active' = TRUE
            /\ pc' = "cb"
            /\ fired' = SatFired(fired + 1)
            /\ TimerStep("fire")
       ELSE /\ pc' = "chain"
            /\ TimerStep("stamp")
            /\ UNCHANGED << cb_active, fired >>
    /\ UNCHANGED << mode, timeout_rtc_ticks, remaining_ticks, total_rtc_ticks,
                    cb, rtc, hw_armed, hw_left, late, arms, aborted, ret >>

\* The bound callback calls model_timer_schedule on its own timer.
CbSchedule ==
    /\ pc = "cb"
    /\ \E D \in CallDurations : model_timer_schedule(D, cb)
    /\ TimerStep("cb_schedule")

\* The bound callback calls model_timer_abort on its own timer.
CbAbort ==
    /\ pc = "cb"
    /\ model_timer_abort("cb")
    /\ UNCHANGED late
    /\ TimerStep("cb_abort")

\* Mutant: the repeat is dropped.
RepeatRemainingNone == remaining_ticks

\* Mutant: a repeat restarts the elapsed counter.
RepeatTotalReset ==
    IF mode = "MODEL_TIMER_MODE_REPEATED" THEN 0 ELSE total_rtc_ticks

\* The value line 154-157 leaves in remaining_ticks.
RepeatRemaining ==
    IF mode = "MODEL_TIMER_MODE_REPEATED" THEN timeout_rtc_ticks ELSE remaining_ticks

\* The value line 154-157 leaves in total_rtc_ticks (it is not touched).
RepeatTotal == total_rtc_ticks

\* line 152-157: the callback returns.
CbReturn ==
    /\ pc = "cb"
    /\ cb_active' = FALSE
    /\ remaining_ticks' = RepeatRemaining
    /\ total_rtc_ticks' = RepeatTotal
    /\ arms' = << >>
    /\ pc' = "chain"
    /\ UNCHANGED << mode, timeout_rtc_ticks, last_rtc_stamp, cb, rtc, hw_armed,
                    hw_left, late, fired, aborted, ret >>
    /\ TimerStep("cb_return")

\* line 160-164: continue if time is left.
DispatchChain ==
    /\ pc = "chain"
    /\ IF remaining_ticks > 0
       THEN timeout_update_and_schedule(remaining_ticks, arms)
       ELSE UNCHANGED << remaining_ticks, hw_armed, hw_left, arms >>
    /\ pc' = "idle"
    /\ late' = 0
    /\ UNCHANGED << mode, timeout_rtc_ticks, total_rtc_ticks, last_rtc_stamp,
                    cb_active, cb, rtc, fired, aborted, ret >>
    /\ TimerStep("chain")


\* The bound callback schedules its own timer for any duration.
CbScheduleAny ==
    /\ pc = "cb"
    /\ \E D \in Durations \cup { APP_TIMER_MIN_TIMEOUT_TICKS - 1 } :
           model_timer_schedule(D, cb)
    /\ TimerStep("cb_schedule")

(***************************************************************************)
(* Lines 160-164 and timeout_update_and_schedule statement by statement,   *)
(* for a caller of model_timer_abort that preempts the dispatch.           *)
(* remaining_ticks is an unsigned integer: a subtraction below zero wraps. *)
(***************************************************************************)
RemainingMod == 4 * RtcMod

\* A chain that lost its count is followed for this many arms.
ArmsCap == 4

\* line 161 and line 122: the two tests of remaining_ticks.
ChainCheck ==
    /\ pc = "chain"
    /\ IF remaining_ticks > 0
       THEN /\ pc' = IF remaining_ticks > MODEL_TIMER_MAX_TIMEOUT_TICKS
                     THEN "arm_max" ELSE "arm_rest"
            /\ UNCHANGED late
       ELSE pc' = "idle" /\ late' = 0
    /\ UNCHANGED << mode, timeout_rtc_ticks, remaining_ticks, total_rtc_ticks,
                    last_rtc_stamp, cb_active, cb, rtc, hw_armed, hw_left, arms,
                    fired, aborted, ret >>
    /\ TimerStep("chain_check")

\* line 124-125: one full segment is taken off remaining_ticks and armed.
ChainArmMax ==
    /\ pc = "arm_max" /\ Len(arms) < ArmsCap
    /\ remaining_ticks' =
           (remaining_ticks - APP_TIMER_MAX_TIMEOUT + RemainingMod) % RemainingMod
    /\ app_timer_start(APP_TIMER_MAX_TIMEOUT)
    /\ arms' = Append(arms, APP_TIMER_MAX_TIMEOUT)
    /\ pc' = "idle"
    /\ late' = 0
    /\ UNCHANGED << mode, timeout_rtc_ticks, total_rtc_ticks, last_rtc_stamp,
                    cb_active, cb, rtc, fired, aborted, ret >>
    /\ TimerStep("chain")

\* line 129-130: what is left is armed.
ChainArmRest ==
    /\ pc = "arm_rest" /\ Len(arms) < ArmsCap
    /\ app_timer_start(remaining_ticks)
    /\ arms' = Append(arms, remaining_ticks)
    /\ remaining_ticks' = 0
    /\ pc' = "idle"
    /\ late' = 0
    /\ UNCHANGED << mode, timeout_rtc_ticks, total_rtc_ticks, last_rtc_stamp,
                    cb_active, cb, rtc, fired, aborted, ret >>
    /\ TimerStep("chain")

\* model_timer_abort from a context that preempts the dispatch in progress.
AbortInFlight ==
    /\ pc \notin { "idle", "fault" }
    /\ model_timer_abort("app")
    /\ UNCHANGED late
    /\ TimerStep("abort")

Dispatch == DispatchBegin \/ DispatchStamp \/ CbReturn \/ DispatchChain

\* The state model_timer_create leaves, for either mode.
InitTimer ==
    /\ mode \in Modes
    /\ timeout_rtc_ticks = 0
    /\ remaining_ticks = 0
    /\ total_rtc_ticks = 0
    /\ last_rtc_stamp = 0
    /\ cb_active = FALSE
    /\ cb = "cb"
    /\ rtc = RtcMod - 2
    /\ hw_armed = FALSE
    /\ hw_left = 0
    /\ late = 0
    /\ pc = "idle"
    /\ arms = << >>
    /\ fired = 0
    /\ aborted = "no"
    /\ ret = "none"
    /\ true_ticks = 0


(***************************************************************************)
(* TID tracker.  Time is counted in seconds on a wrapping clock; the timer *)
(* scheduler holds at most one queued expiry for the tracker's event and   *)
(* runs it when the clock reaches its timestamp.                           *)
(***************************************************************************)
TID_VALIDATION_INTERVAL == 6

\* The scheduler's timestamps wrap at TimeMod.
TimeMod == 16

Addrs == { 16, 32 }

MessageIds == { 5, 6 }

Tids == { 3, 4 }

\* Mutant: the destination address is not compared.
TidIsNewNoDst(s, d, m, t) ==
    \/ src # s
    \/ old_tid # t
    \/ message_id # m
    \/ tid_cb = "NULL"

\* line 245-249: the condition under which a message starts a new transaction.
TidIsNew(s, d, m, t) ==
    \/ src # s
    \/ dst # d
    \/ old_tid # t
    \/ message_id # m
    \/ tid_cb = "NULL"

\* Mutant: the expiry callback leaves the binding in place.
model_tid_timer_cb_keeps == tid_cb

\* line 170: the value the expiry callback leaves in tid_expiry_timer.cb.
model_tid_timer_cb == "NULL"

\* timer_sch_reschedule: the event is queued once, with the new timestamp.
timer_sch_reschedule(ts) ==
    /\ tid_pending' = TRUE
    /\ tid_timestamp' = ts

MinOf(a, b) == IF a < b THEN a ELSE b

\* Mutant: a retransmission restarts the validity window.
model_tid_validate_refresh(s, d, m, t) ==
    /\ tid_args' = << s, d, m, t >>
    /\ src' = s
    /\ dst' = d
    /\ message_id' = m
    /\ old_tid' = t
    /\ tid_interval' = 0
    /\ tid_cb' = "model_tid_timer_cb"
    /\ timer_sch_reschedule((now + TID_VALIDATION_INTERVAL) % TimeMod)
    /\ new_transaction' = TidIsNew(s, d, m, t)
    /\ tid_age' = IF TidIsNew(s, d, m, t) THEN 0 ELSE tid_age
    /\ tid_gen' = IF TidIsNew(s, d, m, t) THEN 1 - tid_gen ELSE tid_gen
    /\ tid_phase' = IF ~TidIsNew(s, d, m, t) THEN "repeated"
                    ELSE IF tid_phase = "elapsed" /\ << src, dst, message_id, old_tid >> = << s, d, m, t >>
                    THEN "again"
                    ELSE IF tid_cb # "NULL" THEN "replaced" ELSE "open"
    /\ UNCHANGED now

\* Mutant: a pending expiry is left where it is.
model_tid_validate_keeps_expiry(s, d, m, t) ==
    /\ tid_args' = << s, d, m, t >>
    /\ IF TidIsNew(s, d, m, t)
       THEN /\ src' = s
            /\ dst' = d
            /\ message_id' = m
            /\ old_tid' = t
            /\ tid_interval' = 0
            /\ tid_cb' = "model_tid_timer_cb"
            /\ IF tid_pending
               THEN UNCHANGED << tid_pending, tid_timestamp >>
               ELSE timer_sch_reschedule((now + TID_VALIDATION_INTERVAL) % TimeMod)
            /\ new_transaction' = TRUE
            /\ tid_age' = 0
            /\ tid_gen' = 1 - tid_gen
            /\ tid_phase' = IF tid_phase = "elapsed" /\ << src, dst, message_id, old_tid >> = << s, d, m, t >>
                            THEN "again"
                            ELSE IF tid_cb # "NULL" THEN "replaced" ELSE "open"
       ELSE /\ new_transaction' = FALSE
            /\ tid_phase' = "repeated"
            /\ UNCHANGED << src, dst, message_id, old_tid, tid_interval, tid_cb,
                            tid_pending, tid_timestamp, tid_age, tid_gen >>
    /\ UNCHANGED now

model_tid_validate(s, d, m, t) ==
    /\ tid_args' = << s, d, m, t >>
    /\ IF TidIsNew(s, d, m, t)
       THEN /\ src' = s
            /\ dst' = d
            /\ message_id' = m
            /\ old_tid' = t
            /\ tid_interval' = 0
            /\ tid_cb' = "model_tid_timer_cb"
            /\ timer_sch_reschedule((now + TID_VALIDATION_INTERVAL) % TimeMod)
            /\ new_transaction' = TRUE
            /\ tid_age' = 0
            /\ tid_gen' = 1 - tid_gen
            /\ tid_phase' = IF tid_phase = "elapsed" /\ << src, dst, message_id, old_tid >> = << s, d, m, t >>
                            THEN "again"
                            ELSE IF tid_cb # "NULL" THEN "replaced" ELSE "open"
       ELSE /\ new_transaction' = FALSE
            /\ tid_phase' = "repeated"
            /\ UNCHANGED << src, dst, message_id, old_tid, tid_interval, tid_cb,
                            tid_pending, tid_timestamp, tid_age, tid_gen >>
    /\ UNCHANGED now

Validate ==
    /\ \E s \in Addrs, d \in Addrs, m \in MessageIds, t \in Tids :
           model_tid_validate(s, d, m, t)
    /\ op' = "validate"
    /\ UNCHANGED << timerVars, delayVars, ttVars, cfgVars >>

\* The scheduler runs the queued event: model_tid_timer_cb; a one-shot event
\* (interval 0) leaves the queue.
TidFire ==
    /\ tid_pending /\ now = tid_timestamp
    /\ tid_cb' = model_tid_timer_cb
    /\ tid_pending' = (tid_interval # 0)
    /\ tid_phase' = IF tid_phase = "repeated" THEN "elapsed" ELSE "closed"
    /\ op' = "tid_fire"
    /\ UNCHANGED << src, dst, message_id, old_tid, new_transaction, tid_interval,
                    now, tid_timestamp, tid_args, tid_age, tid_gen >>
    /\ UNCHANGED << timerVars, delayVars, ttVars, cfgVars >>

\* One second passes; a due event runs before the clock moves on.
TidTick ==
    /\ ~(tid_pending /\ now = tid_timestamp)
    /\ now' = (now + 1) % TimeMod
    /\ tid_age' = MinOf(tid_age + 1, TID_VALIDATION_INTERVAL)
    /\ op' = "tid_tick"
    /\ UNCHANGED << src, dst, message_id, old_tid, new_transaction, tid_cb,
                    tid_interval, tid_pending, tid_timestamp, tid_args, tid_gen,
                    tid_phase >>
    /\ UNCHANGED << timerVars, delayVars, ttVars, cfgVars >>

(***************************************************************************)
(* Delay codec.                                                            *)
(***************************************************************************)
DELAY_TIME_STEP_FACTOR_MS == 5

DELAY_TIME_STEP_MAX == 255

DELAY_TIME_MAX_MS == DELAY_TIME_STEP_MAX * DELAY_TIME_STEP_FACTOR_MS

\* Largest delay of the dense input range; a delay far above the maximum
\* (a million seconds) is an input too.
MaxDelayIn == 1300

LargeDelay == 1000000 * 1000

DelayInputs == (0 .. MaxDelayIn) \cup { LargeDelay }

\* A value returned as uint8_t.
U8(x) == x % 256

model_delay_decode(enc) == enc * DELAY_TIME_STEP_FACTOR_MS

model_delay_encode(delay) ==
    IF delay > DELAY_TIME_STEP_MAX
    THEN U8(DELAY_TIME_STEP_MAX)
    ELSE U8(delay \div DELAY_TIME_STEP_FACTOR_MS)

DelayEncode ==
    /\ delay_pc = "input"
    /\ enc_delay' = model_delay_encode(delay_in)
    /\ delay_pc' = "encoded"
    /\ op' = "delay_encode"
    /\ UNCHANGED << delay_in, dec_delay >>
    /\ UNCHANGED << timerVars, tidVars, ttVars, cfgVars >>

DelayDecode ==
    /\ delay_pc = "encoded"
    /\ dec_delay' = model_delay_decode(enc_delay)
    /\ delay_pc' = "decoded"
    /\ op' = "delay_decode"
    /\ UNCHANGED << delay_in, enc_delay >>
    /\ UNCHANGED << timerVars, tidVars, ttVars, cfgVars >>

(***************************************************************************)
(* Transition time codec.  The resolution bits, the mask and the step      *)
(* factors are those of model_common.c; the reserved step count and the    *)
(* tier maxima are defined in model_common.h.                              *)
(***************************************************************************)
TRANSITION_TIME_STEP_RESOLUTION_100MS == 0

TRANSITION_TIME_STEP_RESOLUTION_1S == 64

TRANSITION_TIME_STEP_RESOLUTION_10S == 128

TRANSITION_TIME_STEP_RESOLUTION_10M == 192

TRANSITION_TIME_STEP_MASK == 192

TRANSITION_TIME_STEP_100MS_FACTOR == 100

TRANSITION_TIME_STEP_1S_FACTOR == 1000

TRANSITION_TIME_STEP_10S_FACTOR == 10 * 1000

TRANSITION_TIME_STEP_10M_FACTOR == 10 * 60 * 1000

\* The step count that stands for "unknown".
TRANSITION_TIME_UNKNOWN == 63

\* The largest duration of each tier: 63 steps.
TRANSITION_TIME_STEP_100MS_MAX == 63 * TRANSITION_TIME_STEP_100MS_FACTOR

TRANSITION_TIME_STEP_1S_MAX == 63 * TRANSITION_TIME_STEP_1S_FACTOR

TRANSITION_TIME_STEP_10S_MAX == 63 * TRANSITION_TIME_STEP_10S_FACTOR

TRANSITION_TIME_STEP_10M_MAX == 63 * TRANSITION_TIME_STEP_10M_FACTOR

\* The duration that stands for "unknown": UINT32_MAX in the header, the
\* largest integer of the model here.  Only its being above every tier
\* maximum matters.
MODEL_TRANSITION_TIME_UNKNOWN == 2147483647

\* Durations up to this one are all encoded; above it the inputs are the
\* neighbours of every step of every tier.
MaxTransitionIn == 6500

Factors ==
    { TRANSITION_TIME_STEP_100MS_FACTOR, TRANSITION_TIME_STEP_1S_FACTOR,
      TRANSITION_TIME_STEP_10S_FACTOR, TRANSITION_TIME_STEP_10M_FACTOR }

TransitionInputs ==
    (0 .. MaxTransitionIn)
        \cup { k * f + d : k \in 1 .. 64, f \in Factors, d \in { -1, 0, 1 } }
        \cup { k * f + (f \div 2) : k \in 0 .. 63, f \in Factors }
        \cup { MODEL_TRANSITION_TIME_UNKNOWN }

Bytes == 0 .. 255

\* enc_transition_time when no byte was received.
NoByte == 0 - 1

RECURSIVE BitAnd(_, _)
BitAnd(a, b) ==
    IF a = 0 \/ b = 0 THEN 0
    ELSE (a % 2) * (b % 2) + 2 * BitAnd(a \div 2, b \div 2)

RECURSIVE BitOr(_, _)
BitOr(a, b) ==
    IF a = 0 THEN b
    ELSE IF b = 0 THEN a
    ELSE (IF a % 2 = 1 \/ b % 2 = 1 THEN 1 ELSE 0) + 2 * BitOr(a \div 2, b \div 2)

\* ~x on the low eight bits, all an operand of type uint8_t can meet.
BitNot8(x) == 255 - x

StepsOf(enc) == BitAnd(enc, BitNot8(TRANSITION_TIME_STEP_MASK))

ResolutionOf(enc) == BitAnd(enc, TRANSITION_TIME_STEP_MASK)

model_transition_time_decode(enc) ==
    IF StepsOf(enc) = TRANSITION_TIME_UNKNOWN
    THEN MODEL_TRANSITION_TIME_UNKNOWN
    ELSE CASE ResolutionOf(enc) = TRANSITION_TIME_STEP_RESOLUTION_100MS ->
                  StepsOf(enc) * TRANSITION_TIME_STEP_100MS_FACTOR
           [] ResolutionOf(enc) = TRANSITION_TIME_STEP_RESOLUTION_1S ->
                  StepsOf(enc) * TRANSITION_TIME_STEP_1S_FACTOR
           [] ResolutionOf(enc) = TRANSITION_TIME_STEP_RESOLUTION_10S ->
                  StepsOf(enc) * TRANSITION_TIME_STEP_10S_FACTOR
           [] ResolutionOf(enc) = TRANSITION_TIME_STEP_RESOLUTION_10M ->
                  StepsOf(enc) * TRANSITION_TIME_STEP_10M_FACTOR
           [] OTHER -> 0

\* Mutant: the tier maxima are excluded from their tiers.
model_transition_time_encode_strict(t) ==
    IF t < TRANSITION_TIME_STEP_100MS_MAX
    THEN U8(BitOr(t \div TRANSITION_TIME_STEP_100MS_FACTOR,
                  TRANSITION_TIME_STEP_RESOLUTION_100MS))
    ELSE IF t < TRANSITION_TIME_STEP_1S_MAX
    THEN U8(BitOr(t \div TRANSITION_TIME_STEP_1S_FACTOR,
                  TRANSITION_TIME_STEP_RESOLUTION_1S))
    ELSE IF t < TRANSITION_TIME_STEP_10S_MAX
    THEN U8(BitOr(t \div TRANSITION_TIME_STEP_10S_FACTOR,
                  TRANSITION_TIME_STEP_RESOLUTION_10S))
    ELSE IF t < TRANSITION_TIME_STEP_10M_MAX
    THEN U8(BitOr(t \div TRANSITION_TIME_STEP_10M_FACTOR,
                  TRANSITION_TIME_STEP_RESOLUTION_10M))
    ELSE TRANSITION_TIME_UNKNOWN

model_transition_time_encode(t) ==
    IF t <= TRANSITION_TIME_STEP_100MS_MAX
    THEN U8(BitOr(t \div TRANSITION_TIME_STEP_100MS_FACTOR,
                  TRANSITION_TIME_STEP_RESOLUTION_100MS))
    ELSE IF t <= TRANSITION_TIME_STEP_1S_MAX
    THEN U8(BitOr(t \div TRANSITION_TIME_STEP_1S_FACTOR,
                  TRANSITION_TIME_STEP_RESOLUTION_1S))
    ELSE IF t <= TRANSITION_TIME_STEP_10S_MAX
    THEN U8(BitOr(t \div TRANSITION_TIME_STEP_10S_FACTOR,
                  TRANSITION_TIME_STEP_RESOLUTION_10S))
    ELSE IF t <= TRANSITION_TIME_STEP_10M_MAX
    THEN U8(BitOr(t \div TRANSITION_TIME_STEP_10M_FACTOR,
                  TRANSITION_TIME_STEP_RESOLUTION_10M))
    ELSE TRANSITION_TIME_UNKNOWN

model_transition_time_is_valid(enc) == StepsOf(enc) # TRANSITION_TIME_UNKNOWN

\* A received byte is decoded.
TransitionDecodeGiven ==
    /\ tt_pc = "byte"
    /\ transition_time' = model_transition_time_decode(enc_transition_time)
    /\ tt_pc' = "input"
    /\ op' = "transition_decode_given"
    /\ UNCHANGED << enc_transition_time, enc_time, time >>
    /\ UNCHANGED << timerVars, tidVars, delayVars, cfgVars >>

TransitionEncode ==
    /\ tt_pc = "input"
    /\ enc_time' = model_transition_time_encode(transition_time)
    /\ tt_pc' = "encoded"
    /\ op' = "transition_encode"
    /\ UNCHANGED << enc_transition_time, transition_time, time >>
    /\ UNCHANGED << timerVars, tidVars, delayVars, cfgVars >>

TransitionDecode ==
    /\ tt_pc = "encoded"
    /\ time' = model_transition_time_decode(enc_time)
    /\ tt_pc' = "decoded"
    /\ op' = "transition_decode"
    /\ UNCHANGED << enc_transition_time, transition_time, enc_time >>
    /\ UNCHANGED << timerVars, tidVars, delayVars, cfgVars >>

(***************************************************************************)
(* Metadata recovery.  The instance counts are build configuration; the    *)
(* configuration store (mesh_config) and the event dispatch are ports.     *)
(***************************************************************************)
LIGHT_LIGHTNESS_SETUP_SERVER_INSTANCES_MAX == 1

LIGHT_LC_SETUP_SERVER_INSTANCES_MAX == 2

LIGHT_CTL_SETUP_SERVER_INSTANCES_MAX == 3

\* The record metadata_store writes.
Metadata ==
    [ light_lightness_instance_count |-> LIGHT_LIGHTNESS_SETUP_SERVER_INSTANCES_MAX,
      light_lc_instance_count |-> LIGHT_LC_SETUP_SERVER_INSTANCES_MAX,
      light_ctl_instance_count |-> LIGHT_CTL_SETUP_SERVER_INSTANCES_MAX ]

\* Records an earlier build of the firmware may have left in the store.
StoredRecords ==
    [ light_lightness_instance_count :
          (LIGHT_LIGHTNESS_SETUP_SERVER_INSTANCES_MAX - 1)
              .. (LIGHT_LIGHTNESS_SETUP_SERVER_INSTANCES_MAX + 1),
      light_lc_instance_count :
          (LIGHT_LC_SETUP_SERVER_INSTANCES_MAX - 1)
              .. (LIGHT_LC_SETUP_SERVER_INSTANCES_MAX + 1),
      light_ctl_instance_count :
          (LIGHT_CTL_SETUP_SERVER_INSTANCES_MAX - 1)
              .. (LIGHT_CTL_SETUP_SERVER_INSTANCES_MAX + 1) ]

EventTypes == { "NRF_MESH_EVT_CONFIG_LOAD_FAILURE", "NRF_MESH_EVT_CONFIG_STABLE" }

Files == { "MESH_OPT_MODEL_FILE_ID", "MESH_OPT_NET_STATE_FILE_ID" }

\* model_common_metadata_setter: its return value and what it leaves in
\* is_metadata_stored.
model_common_metadata_setter(p_metadata) ==
    IF /\ p_metadata.light_lightness_instance_count
              = LIGHT_LIGHTNESS_SETUP_SERVER_INSTANCES_MAX
       /\ p_metadata.light_lc_instance_count = LIGHT_LC_SETUP_SERVER_INSTANCES_MAX
       /\ p_metadata.light_ctl_instance_count = LIGHT_CTL_SETUP_SERVER_INSTANCES_MAX
    THEN "NRF_SUCCESS"
    ELSE "NRF_ERROR_INVALID_DATA"

setter_stores(p_metadata, stored) ==
    IF model_common_metadata_setter(p_metadata) = "NRF_SUCCESS" THEN TRUE ELSE stored

\* Mutant: a load failure of any file counts.
mesh_evt_handler_any_file(type, file) ==
    IF type = "NRF_MESH_EVT_CONFIG_LOAD_FAILURE" THEN TRUE ELSE is_load_failed

\* mesh_evt_handler: what it leaves in is_load_failed.
mesh_evt_handler(type, file) ==
    IF type = "NRF_MESH_EVT_CONFIG_LOAD_FAILURE" /\ file = "MESH_OPT_MODEL_FILE_ID"
    THEN TRUE
    ELSE is_load_failed

\* mesh_config_entry_set runs the entry's setter and keeps the record if the
\* setter accepts it; metadata_store asserts that it does.
metadata_store(stored) ==
    /\ model_common_metadata_setter(Metadata) = "NRF_SUCCESS"
    /\ is_metadata_stored' = setter_stores(Metadata, stored)
    /\ entry' = << Metadata >>

model_common_init ==
    /\ evt_cb' = "mesh_evt_handler"
    /\ is_load_failed' = FALSE
    /\ UNCHANGED << is_metadata_stored, entry >>

model_common_config_apply ==
    IF is_load_failed
    THEN /\ metadata_store(FALSE)
         /\ cfg_calls' = << "mesh_stack_config_clear", "light_lightness_mc_clear",
                            "light_lc_mc_clear", "light_ctl_mc_clear",
                            "mesh_config_entry_delete", "mesh_config_entry_set" >>
         /\ cfg_ret' = "NRF_ERROR_INVALID_DATA"
    ELSE /\ IF ~is_metadata_stored
            THEN /\ metadata_store(is_metadata_stored)
                 /\ cfg_calls' = << "mesh_config_entry_set" >>
            ELSE /\ UNCHANGED << is_metadata_stored, entry >>
                 /\ cfg_calls' = << >>
         /\ cfg_ret' = "NRF_SUCCESS"

ModelCommonInit ==
    /\ model_common_init
    /\ failure_seen' = FALSE
    /\ cfg_op' = "init"
    /\ op' = "model_common_init"
    /\ UNCHANGED << cfg_calls, cfg_ret >>
    /\ UNCHANGED << timerVars, tidVars, delayVars, ttVars >>

\* The event dispatch delivers an event to the registered handler.
MeshEvent ==
    /\ evt_cb = "mesh_evt_handler"
    /\ \E type \in EventTypes, file \in Files :
          /\ is_load_failed' = mesh_evt_handler(type, file)
          /\ failure_seen' =
                 (failure_seen \/ (type = "NRF_MESH_EVT_CONFIG_LOAD_FAILURE"
                                     /\ file = "MESH_OPT_MODEL_FILE_ID"))
    /\ cfg_op' = "event"
    /\ op' = "mesh_evt_handler"
    /\ UNCHANGED << is_metadata_stored, evt_cb, entry, cfg_calls, cfg_ret >>
    /\ UNCHANGED << timerVars, tidVars, delayVars, ttVars >>

\* The configuration store loads the persisted record through the setter and
\* reports a record the setter refuses.
ConfigLoad ==
    /\ entry # << >>
    /\ is_metadata_stored' = setter_stores(entry[1], is_metadata_stored)
    /\ IF model_common_metadata_setter(entry[1]) # "NRF_SUCCESS"
             /\ evt_cb = "mesh_evt_handler"
       THEN /\ is_load_failed' =
                   mesh_evt_handler("NRF_MESH_EVT_CONFIG_LOAD_FAILURE",
                                    "MESH_OPT_MODEL_FILE_ID")
            /\ failure_seen' = TRUE
       ELSE UNCHANGED << is_load_failed, failure_seen >>
    /\ cfg_op' = "load"
    /\ op' = "mesh_config_load"
    /\ UNCHANGED << evt_cb, entry, cfg_calls, cfg_ret >>
    /\ UNCHANGED << timerVars, tidVars, delayVars, ttVars >>

ConfigApply ==
    /\ model_common_config_apply
    /\ cfg_op' = "config_apply"
    /\ op' = "model_common_config_apply"
    /\ UNCHANGED << is_load_failed, evt_cb, failure_seen >>
    /\ UNCHANGED << timerVars, tidVars, delayVars, ttVars >>

\* A power cycle: the statics are zeroed, the persisted record stays.
Reboot ==
    /\ is_metadata_stored' = FALSE
    /\ is_load_failed' = FALSE
    /\ evt_cb' = "NULL"
    /\ failure_seen' = FALSE
    /\ cfg_calls' = << >>
    /\ cfg_ret' = "none"
    /\ cfg_op' = "boot"
    /\ op' = "reboot"
    /\ UNCHANGED entry
    /\ UNCHANGED << timerVars, tidVars, delayVars, ttVars >>

(***************************************************************************)
(* Initial states and specifications.                                      *)
(***************************************************************************)
\* A tracker in zero-initialised storage apart from the compared fields,
\* which hold whatever was there.
InitTid ==
    /\ src \in Addrs
    /\ dst \in Addrs
    /\ message_id \in MessageIds
    /\ old_tid \in Tids
    /\ new_transaction = FALSE
    /\ tid_cb = "NULL"
    /\ tid_interval = 0
    /\ now = 0
    /\ tid_pending = FALSE
    /\ tid_timestamp = 0
    /\ tid_args = << >>
    /\ tid_age = TID_VALIDATION_INTERVAL
    /\ tid_gen = 0
    /\ tid_phase = "none"

\* The tracker when it is not the component under study.
TidUnused ==
    /\ src = 16 /\ dst = 16 /\ message_id = 5 /\ old_tid = 3
    /\ new_transaction = FALSE
    /\ tid_cb = "NULL"
    /\ tid_interval = 0
    /\ now = 0
    /\ tid_pending = FALSE
    /\ tid_timestamp = 0
    /\ tid_args = << >>
    /\ tid_age = TID_VALIDATION_INTERVAL
    /\ tid_gen = 0
    /\ tid_phase = "none"

DelayUnused ==
    /\ delay_in = 0 /\ enc_delay = 0 /\ dec_delay = 0 /\ delay_pc = "unused"

TimerUnused == InitTimer /\ mode = "MODEL_TIMER_MODE_SINGLE_SHOT"

TransitionUnused ==
    /\ enc_transition_time = NoByte /\ transition_time = 0 /\ enc_time = 0
    /\ time = 0 /\ tt_pc = "unused"

\* The statics of the metadata after boot, nothing persisted.
ConfigUnused ==
    /\ is_metadata_stored = FALSE /\ is_load_failed = FALSE /\ evt_cb = "NULL"
    /\ entry = << >> /\ cfg_calls = << >> /\ cfg_ret = "none"
    /\ failure_seen = FALSE /\ cfg_op = "boot"

OthersUnused == TransitionUnused /\ ConfigUnused

\* The timer with application calls at any time and reentrant calls from the
\* callback.
Init == InitTimer /\ op = "init" /\ TidUnused /\ DelayUnused /\ OthersUnused

Next ==
    \/ Schedule
    \/ Abort
    \/ Tick
    \/ DispatchBegin
    \/ DispatchStamp
    \/ CbSchedule
    \/ CbAbort
    \/ CbReturn
    \/ DispatchChain

Spec == Init /\ [][Next]_vars

\* The timer scheduled once and left to run: the hardware counter keeps
\* counting and app_timer runs the handler of an expired slot.
ScheduleOnce ==
    /\ pc = "idle" /\ ret = "none"
    /\ \E D \in Durations : model_timer_schedule(D, "cb")
    /\ TimerStep("schedule")

NextRun ==
    \/ ScheduleOnce
    \/ Tick
    \/ DispatchBegin
    \/ DispatchStamp
    \/ CbReturn
    \/ DispatchChain

SpecRun == Init /\ [][NextRun]_vars /\ WF_vars(Tick) /\ WF_vars(Dispatch)

\* The timer scheduled once by the application and then again, or aborted,
\* by its own callback.
NextReentrant ==
    \/ ScheduleOnce
    \/ Tick
    \/ DispatchBegin
    \/ DispatchStamp
    \/ CbScheduleAny
    \/ CbAbort
    \/ CbReturn
    \/ DispatchChain

SpecReentrant == Init /\ [][NextReentrant]_vars

\* The timer scheduled once and aborted at any time, also between two
\* statements of the dispatch.
NextRace ==
    \/ ScheduleOnce
    \/ Abort
    \/ AbortInFlight
    \/ Tick
    \/ DispatchBegin
    \/ DispatchStamp
    \/ CbAbort
    \/ CbReturn
    \/ ChainCheck
    \/ ChainArmMax
    \/ ChainArmRest

SpecRace == Init /\ [][NextRace]_vars

\* The tracker: messages arrive at any time, the clock runs and the timer
\* scheduler runs a due event.
InitTracker == TimerUnused /\ op = "init" /\ InitTid /\ DelayUnused /\ OthersUnused

NextTid == Validate \/ TidTick \/ TidFire

SpecTid == InitTracker /\ [][NextTid]_vars /\ WF_vars(TidTick) /\ WF_vars(TidFire)

\* The delay codec applied to every input.
InitDelay ==
    /\ TimerUnused /\ op = "init" /\ TidUnused /\ OthersUnused
    /\ delay_in \in DelayInputs
    /\ enc_delay = 0 /\ dec_delay = 0 /\ delay_pc = "input"

NextDelay == DelayEncode \/ DelayDecode

SpecDelay == InitDelay /\ [][NextDelay]_vars

\* The transition time codec applied to every received byte and to the
\* durations of TransitionInputs.
InitTransition ==
    /\ TimerUnused /\ op = "init" /\ TidUnused /\ DelayUnused /\ ConfigUnused
    /\ enc_time = 0 /\ time = 0
    /\ \/ enc_transition_time \in Bytes /\ transition_time = 0 /\ tt_pc = "byte"
       \/ /\ enc_transition_time = NoByte
          /\ transition_time \in TransitionInputs
          /\ tt_pc = "input"

NextTransition == TransitionDecodeGiven \/ TransitionEncode \/ TransitionDecode

SpecTransition == InitTransition /\ [][NextTransition]_vars

\* The metadata: boots, loads, events and config_apply in any order, over
\* every record an earlier build may have persisted.
InitConfig ==
    /\ TimerUnused /\ op = "init" /\ TidUnused /\ DelayUnused /\ TransitionUnused
    /\ is_metadata_stored = FALSE /\ is_load_failed = FALSE /\ evt_cb = "NULL"
    /\ entry \in { << >> } \cup { << r >> : r \in StoredRecords }
    /\ cfg_calls = << >> /\ cfg_ret = "none"
    /\ failure_seen = FALSE /\ cfg_op = "boot"

NextConfig == ModelCommonInit \/ MeshEvent \/ ConfigLoad \/ ConfigApply \/ Reboot

SpecConfig == InitConfig /\ [][NextConfig]_vars

(***************************************************************************)
(* Properties.                                                             *)
(***************************************************************************)
SingleShot == mode = "MODEL_TIMER_MODE_SINGLE_SHOT"

Repeated == mode = "MODEL_TIMER_MODE_REPEATED"

Scheduled == ret = "NRF_SUCCESS"

\* One-shot run: never more than one firing, the arms before it sum to the
\* scheduled duration, and after it nothing is armed.
OneShotSafe ==
    (SingleShot /\ Scheduled) =>
        /\ fired <= 1
        /\ (op = "fire" => SumSeq(arms) = timeout_rtc_ticks)
        /\ (fired = 1 /\ pc # "cb" => arms = << >> /\ ~hw_armed)

\* C1: a OneShot timer scheduled once with a duration D >= the minimum and
\* left alone eventually fires, fires exactly once, the arms issued between
\* schedule() and the firing sum to D, and no arm follows the firing.
C1_OneShotFiresOnce ==
    /\ []OneShotSafe
    /\ ((SingleShot /\ Scheduled) ~> (fired = 1))
    /\ ((SingleShot /\ Scheduled) ~> [](fired = 1 /\ pc = "idle" /\ ~hw_armed))

\* C1 witness: the longest duration, three arms, has fired and the timer is idle.
C1_Witness ==
    /\ SingleShot /\ Scheduled /\ timeout_rtc_ticks = ScenarioDuration
    /\ fired = 1 /\ pc = "idle" /\ ~hw_armed

\* C2: a Repeating timer scheduled once with D >= the minimum fires again
\* and again, and the arms issued between two consecutive firings (and
\* between schedule() and the first) sum to D.
C2_RepeatingFiresForever ==
    /\ [](Repeated /\ op = "fire" => SumSeq(arms) = timeout_rtc_ticks)
    /\ ((Repeated /\ Scheduled) ~> (op = "fire"))
    /\ ((Repeated /\ op = "fire") ~> (op = "cb_return" /\ remaining_ticks = timeout_rtc_ticks))

\* C2 witness: a third firing of a chained repeating timer.
C2_Witness ==
    /\ Repeated /\ Scheduled /\ timeout_rtc_ticks = ScenarioDuration
    /\ op = "fire" /\ fired = 3

\* The chain of arms the code issues for a duration r.
RECURSIVE ChainOf(_)
ChainOf(r) ==
    IF r = 0 THEN << >>
    ELSE IF r > MODEL_TIMER_MAX_TIMEOUT_TICKS
         THEN << APP_TIMER_MAX_TIMEOUT >> \o ChainOf(r - APP_TIMER_MAX_TIMEOUT)
         ELSE << r >>

\* C3 as claimed: after a successful schedule() the elapsed counter never
\* exceeds the scheduled duration, also after the first repeat.  The claim is
\* given the dispatch latency of every arm of the duration for free.
C3_Original ==
    Scheduled =>
        total_rtc_ticks <= timeout_rtc_ticks + MaxLatency * Len(ChainOf(timeout_rtc_ticks))

\* C3 amended: schedule() zeroes the elapsed counter and only schedule() and
\* abort() ever lower it: no step of the dispatch decreases it, the start of
\* a repeat cycle included.
C3_ElapsedOnlyGrows ==
    /\ [][total_rtc_ticks' < total_rtc_ticks
            => op' \in { "schedule", "abort", "cb_schedule", "cb_abort" }]_vars
    /\ [](op \in { "schedule", "cb_schedule" } /\ Scheduled => total_rtc_ticks = 0)

\* C3 witness: a repeating timer in its second cycle, past its duration.
C3_Witness ==
    /\ Repeated /\ Scheduled /\ op = "cb_return" /\ fired = 2
    /\ total_rtc_ticks > timeout_rtc_ticks

\* C4: an abort() from the application (timer idle or armed on any segment)
\* leaves the slot stopped and remaining, configured and elapsed ticks 0;
\* until the next successful schedule() the slot stays stopped, the elapsed
\* counter stays 0 and no dispatch runs, so the callback does not fire.
C4_AbortLeavesIdle ==
    /\ (op = "abort" => timeout_rtc_ticks = 0)
    /\ (aborted = "app" =>
            /\ ~hw_armed
            /\ remaining_ticks = 0
            /\ total_rtc_ticks = 0
            /\ pc = "idle" /\ ~cb_active
            /\ op \in { "abort", "tick", "schedule" })

\* C4 witness: aborted mid-chain (two arms had been issued), time has passed.
C4_Witness ==
    /\ aborted = "app" /\ op = "tick" /\ Len(arms) = 2 /\ fired = 0

\* The chain of arms min(remaining, C) would give.
RECURSIVE MinChainOf(_)
MinChainOf(r) ==
    IF r = 0 THEN << >>
    ELSE << MinOf(r, APP_TIMER_MAX_TIMEOUT) >>
             \o MinChainOf(r - MinOf(r, APP_TIMER_MAX_TIMEOUT))

IsPrefix(s, t) == Len(s) <= Len(t) /\ SubSeq(t, 1, Len(s)) = s

ScenarioArms == << APP_TIMER_MAX_TIMEOUT, APP_TIMER_MAX_TIMEOUT, ScenarioTail >>

\* C5 as claimed: 2C + 50 gives the arms C, C, 50, and every arm is
\* min(remaining_ticks, C).
C5_Original ==
    (Scheduled /\ fired = 0) =>
        /\ IsPrefix(arms, MinChainOf(timeout_rtc_ticks))
        /\ (timeout_rtc_ticks = ScenarioDuration => IsPrefix(arms, ScenarioArms))

\* C5 amended: 2C + 50 gives the arms C, C, 50 (C = APP_TIMER_MAX_TIMEOUT);
\* every arm is C while remaining_ticks exceeds MODEL_TIMER_MAX_TIMEOUT_TICKS
\* and otherwise the whole of remaining_ticks, which may exceed C.
C5_ChainedArms ==
    /\ (Scheduled /\ fired = 0 => IsPrefix(arms, ChainOf(timeout_rtc_ticks)))
    /\ (Scheduled /\ fired = 1 /\ op = "fire" => arms = ChainOf(timeout_rtc_ticks))
    /\ (Scheduled /\ fired = 1 /\ op = "fire" /\ timeout_rtc_ticks = ScenarioDuration
            => arms = ScenarioArms)

\* C5 witness: the scenario has fired after its three arms.
C5_Witness ==
    /\ Scheduled /\ timeout_rtc_ticks = ScenarioDuration /\ op = "fire" /\ fired = 1
    /\ Len(arms) = 3

ScheduleFailed == ret \in { "NRF_ERROR_NULL", "NRF_ERROR_INVALID_PARAM" }

\* C6: schedule() returns NRF_ERROR_NULL when cb is NULL and
\* NRF_ERROR_INVALID_PARAM when the duration is below the minimum, and then
\* leaves remaining_ticks, the elapsed counter, the clock sample and the
\* slot's pending arm as they were.
C6_ScheduleErrorsMutateNothing ==
    /\ [](op \in { "schedule", "cb_schedule" } =>
            /\ (ret = "NRF_ERROR_NULL" <=> cb = "NULL")
            /\ (ret = "NRF_ERROR_INVALID_PARAM" <=>
                   (cb # "NULL" /\ timeout_rtc_ticks < APP_TIMER_MIN_TIMEOUT_TICKS)))
    /\ [][(op' \in { "schedule", "cb_schedule" } /\ ScheduleFailed')
            => UNCHANGED << remaining_ticks, total_rtc_ticks, last_rtc_stamp,
                            hw_armed, hw_left >>]_vars

\* C6 witness: the callback fires although the last schedule() was refused
\* for its duration: the earlier arm stayed in place.
C6_Witness ==
    /\ op = "fire" /\ ret = "NRF_ERROR_INVALID_PARAM" /\ fired = 1
    /\ timeout_rtc_ticks < APP_TIMER_MIN_TIMEOUT_TICKS

Stored == << src, dst, message_id, old_tid >>

WindowOpen == tid_cb # "NULL"

\* C7: validate returns true exactly when the expiry callback is NULL or one
\* of src, dst, message_id, tid differs from the stored value; it then stores
\* the four arguments, binds the expiry callback and queues the expiry 6
\* seconds from now.
C7_ValidateClassifies ==
    [][op' = "validate" =>
          /\ new_transaction' = (tid_cb = "NULL" \/ Stored # tid_args')
          /\ (new_transaction' =>
                 /\ Stored' = tid_args'
                 /\ tid_cb' = "model_tid_timer_cb"
                 /\ tid_interval' = 0
                 /\ tid_pending'
                 /\ tid_timestamp' = (now + TID_VALIDATION_INTERVAL) % TimeMod)]_vars

\* C7 witness: a message that differs only in its destination, received while
\* the window is open, was classified new and the window restarted.
C7_Witness ==
    /\ op = "validate" /\ new_transaction /\ tid_phase = "replaced"
    /\ tid_age = 0 /\ tid_gen = 0 /\ tid_pending
    /\ 0 < now /\ now < TID_VALIDATION_INTERVAL
    /\ tid_timestamp = (now + TID_VALIDATION_INTERVAL) % TimeMod

\* C8: the first validate returns true; a validate with the stored arguments
\* returns false as long as the window is open, which it is for the 6
\* seconds after the validate that opened it, and true once the expiry has
\* run; the window closes only by its expiry, and an open window closes
\* unless a validate classified new restarts it.
C8_WindowOpensAndCloses ==
    /\ [][op' = "validate" /\ tid_phase = "none" => new_transaction']_vars
    /\ [][op' = "validate" /\ tid_args' = Stored
            => (new_transaction' <=> ~WindowOpen)]_vars
    /\ [][op' = "validate" /\ tid_args' = Stored /\ tid_phase # "none"
            /\ tid_age < TID_VALIDATION_INTERVAL => ~new_transaction']_vars
    /\ [][WindowOpen /\ ~WindowOpen'
            => op' = "tid_fire" /\ tid_age = TID_VALIDATION_INTERVAL]_vars
    /\ \A b \in { 0, 1 } :
           (WindowOpen /\ tid_gen = b) ~> (~WindowOpen \/ tid_gen # b)

\* C8 witness: new, repeated, expired, and new again with the same arguments.
C8_Witness ==
    /\ tid_phase = "again" /\ op = "validate" /\ new_transaction
    /\ tid_args = << 16, 32, 5, 3 >>

\* C9: a validate classified not new changes nothing but is_new_transaction,
\* so the expiry stays 6 seconds after the validate that opened the window.
C9_RetransmissionKeepsWindow ==
    /\ [][op' = "validate" /\ ~new_transaction'
            => UNCHANGED << src, dst, message_id, old_tid, tid_cb, tid_interval,
                            tid_pending, tid_timestamp >>]_vars
    /\ [](WindowOpen =>
            /\ tid_pending
            /\ (tid_timestamp - now + TimeMod) % TimeMod
                   = TID_VALIDATION_INTERVAL - tid_age)

\* C9 witness: a retransmission three seconds into the window.
C9_Witness ==
    /\ op = "validate" /\ ~new_transaction /\ WindowOpen /\ tid_age = 3
    /\ (tid_timestamp - now + TimeMod) % TimeMod = 3

\* C10: decode(encode(ms)) <= ms, with equality for a multiple of the step
\* factor up to the maximum delay, and encode(ms) = min(ms, maximum) / factor.
C10_DelayRoundTrip ==
    delay_pc = "decoded" =>
        /\ dec_delay <= delay_in
        /\ (delay_in % DELAY_TIME_STEP_FACTOR_MS = 0 /\ delay_in <= DELAY_TIME_MAX_MS
                => dec_delay = delay_in)
        /\ enc_delay = MinOf(delay_in, DELAY_TIME_MAX_MS) \div DELAY_TIME_STEP_FACTOR_MS

(***************************************************************************)
(* Transition time codec.                                                  *)
(***************************************************************************)
TierFactors ==
    << TRANSITION_TIME_STEP_100MS_FACTOR, TRANSITION_TIME_STEP_1S_FACTOR,
       TRANSITION_TIME_STEP_10S_FACTOR, TRANSITION_TIME_STEP_10M_FACTOR >>

TierBits ==
    << TRANSITION_TIME_STEP_RESOLUTION_100MS, TRANSITION_TIME_STEP_RESOLUTION_1S,
       TRANSITION_TIME_STEP_RESOLUTION_10S, TRANSITION_TIME_STEP_RESOLUTION_10M >>

\* The first tier, in the order 100 ms, 1 s, 10 s, 10 min, whose 63 steps
\* reach ms.
SmallestTier(ms) ==
    CHOOSE i \in 1 .. 4 :
        /\ 63 * TierFactors[i] >= ms
        /\ \A j \in 1 .. (i - 1) : 63 * TierFactors[j] < ms

Encoded == tt_pc \in { "encoded", "decoded" }

\* C11: model_transition_time_encode(ms) selects the smallest tier (100 ms,
\* 1 s, 10 s, 10 min, in that order) whose maximum, 63 times the tier's
\* factor, is at least ms, and returns floor(ms / factor) | resolution bits;
\* so decoding the encoding of 2000 ms gives 2000 ms.
C11_EncodeSelectsSmallestTier ==
    /\ (Encoded /\ transition_time <= 63 * TierFactors[4])
           => enc_time = BitOr(transition_time \div TierFactors[SmallestTier(transition_time)],
                               TierBits[SmallestTier(transition_time)])
    /\ (tt_pc = "decoded" /\ transition_time = 2000) => time = 2000

C11_Witness ==
    /\ tt_pc = "decoded" /\ transition_time = 2000 /\ enc_time = 20 /\ time = 2000

\* C12: model_transition_time_encode(ms) returns a byte that
\* model_transition_time_is_valid rejects if and only if ms exceeds the
\* maximum of the 10 minute tier; every ms at or below it, each tier's exact
\* maximum included, gets a valid byte.
C12_EncodeValidInRange ==
    Encoded
        => (~model_transition_time_is_valid(enc_time)
                <=> transition_time > TRANSITION_TIME_STEP_10M_MAX)

FactorOf(enc) == TierFactors[(ResolutionOf(enc) \div 64) + 1]

\* C20: for every byte b whose low six bits are not the reserved pattern,
\* decode(encode(decode(b))) = decode(b); for every ms up to the maximum of
\* the 10 minute tier, decode(encode(ms)) <= ms and falls short of ms by less
\* than the factor of the tier used.
C20_RoundTrip ==
    /\ (tt_pc = "decoded" /\ enc_transition_time \in Bytes
            /\ model_transition_time_is_valid(enc_transition_time))
           => time = transition_time
    /\ (tt_pc = "decoded" /\ transition_time <= TRANSITION_TIME_STEP_10M_MAX)
           => (time <= transition_time /\ transition_time - time < FactorOf(enc_time))

(***************************************************************************)
(* Metadata recovery.                                                      *)
(***************************************************************************)
RecoveryCalls ==
    << "mesh_stack_config_clear", "light_lightness_mc_clear", "light_lc_mc_clear",
       "light_ctl_mc_clear", "mesh_config_entry_delete", "mesh_config_entry_set" >>

Applied == cfg_op = "config_apply"

\* C13: model_common_config_apply returns NRF_ERROR_INVALID_DATA if and only
\* if a load failure event of the model file was received since the last
\* model_common_init; it then clears the stack configuration, calls the three
\* clear hooks, deletes the record and rewrites it with the compile time
\* counts, in that order.  Otherwise it returns NRF_SUCCESS and writes the
\* record only if it was not stored.  After any config_apply
\* is_metadata_stored is set.
C13_ConfigApplyRecovers ==
    /\ [](Applied => /\ (cfg_ret = "NRF_ERROR_INVALID_DATA") <=> failure_seen
                     /\ failure_seen => (cfg_calls = RecoveryCalls /\ entry = << Metadata >>)
                     /\ ~failure_seen => cfg_ret = "NRF_SUCCESS"
                     /\ is_metadata_stored)
    /\ [][(Applied' /\ ~failure_seen)
              => /\ cfg_calls' = IF is_metadata_stored
                                 THEN << >> ELSE << "mesh_config_entry_set" >>
                 /\ is_metadata_stored => entry' = entry
                 /\ ~is_metadata_stored => entry' = << Metadata >>]_vars

C13_Witness ==
    /\ Applied /\ failure_seen /\ cfg_ret = "NRF_ERROR_INVALID_DATA"
    /\ cfg_calls = RecoveryCalls /\ is_metadata_stored

(***************************************************************************)
(* The timer: reentrant calls, aborts, bounds of the arms, the elapsed     *)
(* counter.                                                                *)
(***************************************************************************)
MinOfTicks(a, b) == IF a < b THEN a ELSE b

\* The dispatch has ended after a callback that scheduled its own timer: the
\* firings since schedule() are 0 and one arm has been issued since.
ReentrantArmed ==
    op = "chain" /\ pc = "idle" /\ Scheduled /\ fired = 0 /\ Len(arms) = 1

\* C14 as stated: the one arm the dispatch issues after a reentrant schedule()
\* is for min(configured_ticks, capacity), the capacity being
\* APP_TIMER_MAX_TIMEOUT.
C14_Original ==
    ReentrantArmed => arms[1] = MinOfTicks(timeout_rtc_ticks, APP_TIMER_MAX_TIMEOUT)

\* C14: schedule() called from the timer's own callback issues no arm and
\* restarts the elapsed counter; the dispatch issues exactly one arm after the
\* callback has returned, for the configured duration if that is at most
\* MODEL_TIMER_MAX_TIMEOUT_TICKS and for APP_TIMER_MAX_TIMEOUT otherwise, on a
\* slot that is not armed; the next firing comes after the whole new
\* duration.  In both modes.
C14_ReentrantScheduleArmsOnce ==
    /\ []((pc = "cb" /\ op = "cb_schedule" /\ Scheduled)
            => /\ ~hw_armed /\ arms = << >>
               /\ total_rtc_ticks = 0
               /\ remaining_ticks = timeout_rtc_ticks)
    /\ [][(pc = "chain" /\ pc' = "idle" /\ Scheduled /\ aborted = "no" /\ fired = 0
              /\ arms = << >>)
            => /\ ~hw_armed
               /\ arms' = << ArmAmount(timeout_rtc_ticks) >>
               /\ hw_armed' /\ hw_left' = ArmAmount(timeout_rtc_ticks)
               /\ remaining_ticks' = timeout_rtc_ticks - ArmAmount(timeout_rtc_ticks)]_vars
    /\ [][(op' = "chain" /\ arms' # arms) => ~hw_armed]_vars
    /\ []((op = "fire" /\ Scheduled /\ fired = 1) => SumSeq(arms) = timeout_rtc_ticks)

C14_Witness ==
    /\ ReentrantArmed /\ Repeated /\ hw_armed
    /\ timeout_rtc_ticks = ScenarioDuration
    /\ arms = << APP_TIMER_MAX_TIMEOUT >>

\* C15: model_timer_abort always wins: called from the timer's own callback
\* or from application context while a dispatch is in progress, the slot is
\* not armed once both have completed.
C15_AbortAlwaysWins ==
    (aborted # "no" /\ pc = "idle") => ~hw_armed

\* C16 as stated: remaining_ticks <= timeout_rtc_ticks in every reachable
\* state.
C16_Original == remaining_ticks <= timeout_rtc_ticks

RefusedSchedule == op \in { "schedule", "cb_schedule" } /\ ScheduleFailed

\* C16: remaining_ticks <= timeout_rtc_ticks holds after create, and every
\* operation keeps it except a schedule() that is refused: that one leaves
\* the duration the caller asked for in timeout_rtc_ticks next to the
\* remaining_ticks of the running timer.
C16_RemainingWithinConfigured ==
    /\ [](op = "init" => remaining_ticks <= timeout_rtc_ticks)
    /\ [][(remaining_ticks <= timeout_rtc_ticks /\ ~RefusedSchedule')
            => remaining_ticks' <= timeout_rtc_ticks']_vars
    /\ [](((op \in { "schedule", "cb_schedule" } /\ Scheduled)
             \/ op \in { "abort", "cb_abort" })
            => remaining_ticks <= timeout_rtc_ticks)

\* C16 witness: the dispatch has armed the second segment of a chain.
C16_Witness ==
    /\ op = "chain" /\ Scheduled /\ Len(arms) = 2
    /\ timeout_rtc_ticks = ChainDuration
    /\ remaining_ticks = ChainDuration - 2 * APP_TIMER_MAX_TIMEOUT
    /\ remaining_ticks > 0

\* C17: every arm the scheduler issues, from schedule() or from the chaining
\* step of the dispatch, in either mode, asks for at least
\* APP_TIMER_MIN_TIMEOUT_TICKS and at most MODEL_TIMER_MAX_TIMEOUT_TICKS.
C17_ArmsWithinHardwareRange ==
    \A i \in DOMAIN arms :
        /\ arms[i] >= APP_TIMER_MIN_TIMEOUT_TICKS
        /\ arms[i] <= MODEL_TIMER_MAX_TIMEOUT_TICKS

\* C18: when the dispatch has taken its new counter sample, total_rtc_ticks
\* equals the ticks that passed since the sample of schedule(), modulo the
\* counter width, also when the counter wraps or advances during the
\* dispatch.
C18_ElapsedLosesNoTicks ==
    (op \in { "stamp", "fire" } /\ Scheduled
        /\ total_rtc_ticks < TotalCap /\ true_ticks < TrueTicksCap)
        => total_rtc_ticks % RtcMod = true_ticks % RtcMod

(***************************************************************************)
(* The tracker's expiry.                                                   *)
(***************************************************************************)
\* C19: the expiry callback is bound exactly when one expiry of the tracker
\* is queued; a validate classified new while the window is open moves the
\* queued expiry to 6 seconds from now instead of adding one, and the expiry
\* that runs is always the one queued by the latest such validate.
C19_ExpiryQueuedIffWindowOpen ==
    /\ [](WindowOpen <=> tid_pending)
    /\ [][(op' = "validate" /\ new_transaction' /\ WindowOpen)
            => /\ tid_pending'
               /\ tid_timestamp' = (now + TID_VALIDATION_INTERVAL) % TimeMod]_vars
    /\ [][op' = "tid_fire"
            => /\ tid_age = TID_VALIDATION_INTERVAL
               /\ now = tid_timestamp
               /\ ~tid_pending']_vars

\* C19 witness: three seconds into a window a validate classified new has
\* replaced the queued expiry.
C19_Witness ==
    /\ op = "validate" /\ tid_phase = "replaced" /\ WindowOpen /\ tid_pending
    /\ now = 3
    /\ tid_timestamp = 3 + TID_VALIDATION_INTERVAL

====
